---------------------------- MODULE Spec2Model ----------------------------
(***************************************************************************)
(* stuffer: hiding a byte payload in the least-significant bits of an      *)
(* RGB(A) pixel grid.  The module models                                   *)
(*   - the bit accumulator (bitwriter.go),                                 *)
(*   - the pixel carrier ImageByteWriter and GetHiddenBytesFromImage,      *)
(*   - the seeded shuffle and its in-place inversion,                      *)
(*   - Program.encodeImage and Program.decodeImage with both envelopes.    *)
(* Three specifications share the variables:                               *)
(*   SpecCarrier  sequences of Write / Seek / extraction on small grids,   *)
(*   SpecShuffle  the four Fisher-Yates rounds under every draw sequence,  *)
(*   Spec         the encode -> (tamper) -> decode pipeline.               *)
(***************************************************************************)
EXTENDS Integers, Sequences, FiniteSets, TLC

VARIABLES
  im,          \* the pixel grid (the image object shared by caller and writer)
  im0,         \* the pixel grid as it was loaded (history)
  ibw,         \* the ImageByteWriter struct (cursor fields, w, h, capacity)
  ret,         \* what the last carrier call returned
  ops,         \* number of carrier calls made so far
  sh,          \* the shuffle rounds in progress (SpecShuffle)
  pc,          \* position of the running encodeImage / decodeImage call
  p,           \* the Program of the running invocation
  q,           \* the Program of the other invocation (encoder's, once decoding)
  dataIn,      \* contents of the input data file
  hiddenData,  \* the envelope buffer local to the running call
  loc,         \* the other locals of the running call
  res          \* outcome of the encode call and of the decode call

vars == <<im, im0, ibw, ret, ops, sh, pc, p, q, dataIn, hiddenData, loc, res>>

-----------------------------------------------------------------------------
(* Bytes and bits *)

Pow2(k) ==
  CASE k = 0 -> 1 [] k = 1 -> 2 [] k = 2 -> 4 [] k = 3 -> 8
    [] k = 4 -> 16 [] k = 5 -> 32 [] k = 6 -> 64 [] OTHER -> 128

\* (data & (1 << i)) != 0
BitAt(b, k) == (b \div Pow2(k)) % 2 = 1

\* A loop "for k := lo; k <= hi; k++ { s = F(s, k) }" over a record s.  The
\* range is halved so that long buffers do not nest deeply, and the test on
\* DOMAIN is always true: it only makes the first half be computed before the
\* second half starts.
RECURSIVE Iterate(_, _, _, _)
Iterate(F(_, _), s, lo, hi) ==
  IF lo > hi THEN s
  ELSE IF lo = hi THEN F(s, lo)
  ELSE LET half == Iterate(F, s, lo, (lo + hi) \div 2)
       IN IF DOMAIN half = DOMAIN half
          THEN Iterate(F, half, (lo + hi) \div 2 + 1, hi)
          ELSE half

\* data[:n] and data[n:] of a Go slice (0-based n), on 1-based sequences
Take(s, n) == SubSeq(s, 1, n)
Drop(s, n) == SubSeq(s, n + 1, Len(s))

\* copy(dst[at:], src): overwrites min(len(src), len(dst)-at) bytes
CopyAt(dst, at, src) ==
  [k \in 1..Len(dst) |->
     IF k > at /\ k <= at + Len(src) THEN src[k - at] ELSE dst[k]]

-----------------------------------------------------------------------------
(* bitwriter.go *)

NewBitWriter == [inner |-> <<>>, currentByte |-> 0, currentPos |-> 0]

Flush(bw) ==
  [inner |-> Append(bw.inner, bw.currentByte), currentByte |-> 0, currentPos |-> 0]

\* flushes after the ninth bit, not the eighth
WriteBit_LateFlush(bw, bit) ==
  LET b1 == IF bit /\ ~BitAt(bw.currentByte, bw.currentPos)
            THEN (bw.currentByte + Pow2(bw.currentPos)) % 256
            ELSE bw.currentByte
  IN IF bw.currentPos + 1 > 8
     THEN Flush([bw EXCEPT !.currentByte = b1, !.currentPos = bw.currentPos + 1])
     ELSE [bw EXCEPT !.currentByte = b1, !.currentPos = bw.currentPos + 1]

WriteBit(bw, bit) ==
  LET b1 == IF bit /\ ~BitAt(bw.currentByte, bw.currentPos)
            THEN (bw.currentByte + Pow2(bw.currentPos)) % 256
            ELSE bw.currentByte
  IN IF bw.currentPos + 1 >= 8
     THEN Flush([bw EXCEPT !.currentByte = b1, !.currentPos = bw.currentPos + 1])
     ELSE [bw EXCEPT !.currentByte = b1, !.currentPos = bw.currentPos + 1]

-----------------------------------------------------------------------------
(* image_hidden_data.go: colours *)

\* the colour models NewImageByteWriter and GetHiddenBytesFromImage accept
SupportedModel(m) == m \in {"RGBA", "NRGBA"}

\* stores the bit as the whole channel value
bitEmbed_Overwrite(b, bit) == IF bit THEN 1 ELSE 0

bitEmbed(b, bit) ==
  IF bit THEN (IF b % 2 = 1 THEN b ELSE b + 1) ELSE b - (b % 2)

colorToRGBA(c) == [R |-> c.R, G |-> c.G, B |-> c.B, A |-> c.A]

\* takes the channels in the order blue, green, red
colorEmbed_BGR(c, pos, bit) ==
  CASE pos = 0 -> [c EXCEPT !.B = bitEmbed(c.B, bit)]
    [] pos = 1 -> [c EXCEPT !.G = bitEmbed(c.G, bit)]
    [] pos = 2 -> [c EXCEPT !.R = bitEmbed(c.R, bit)]
    [] OTHER -> c

colorEmbed(c, pos, bit) ==
  CASE pos = 0 -> [c EXCEPT !.R = bitEmbed(c.R, bit)]
    [] pos = 1 -> [c EXCEPT !.G = bitEmbed(c.G, bit)]
    [] pos = 2 -> [c EXCEPT !.B = bitEmbed(c.B, bit)]
    [] OTHER -> c

\* image.(N)RGBA.At: the zero colour outside the bounds
At(g, x, y) ==
  IF x >= 0 /\ x < g.w /\ y >= 0 /\ y < g.h THEN g.pix[y][x]
  ELSE [R |-> 0, G |-> 0, B |-> 0, A |-> 0]

\* image.(N)RGBA.Set: nothing outside the bounds
Set(g, x, y, c) ==
  IF x >= 0 /\ x < g.w /\ y >= 0 /\ y < g.h
  THEN [g EXCEPT !.pix[y][x] = c]
  ELSE g

-----------------------------------------------------------------------------
(* image_hidden_data.go: ImageByteWriter.  A writer state s is the struct   *)
(* s.ibw together with the image s.im it points to.                        *)

NewImageByteWriter(g) ==
  IF ~SupportedModel(g.model) THEN [err |-> "expected a RGB image"]
  ELSE [err |-> "nil",
        ibw |-> [currentX |-> 0, currentY |-> 0, currentRGB |-> 0,
                 currentByte |-> 0, w |-> g.w, h |-> g.h,
                 capacity |-> (g.w * g.h * 3) \div 8]]

Capacity(b) == b.capacity

\* returns the struct and the boolean result
increment(b) ==
  IF b.currentY >= b.h THEN [ibw |-> b, end |-> TRUE]
  ELSE IF b.currentRGB + 1 > 2
       THEN IF b.currentX + 1 >= b.w
            THEN [ibw |-> [b EXCEPT !.currentRGB = 0, !.currentX = 0,
                                    !.currentY = b.currentY + 1],
                  end |-> FALSE]
            ELSE [ibw |-> [b EXCEPT !.currentRGB = 0,
                                    !.currentX = b.currentX + 1],
                  end |-> FALSE]
       ELSE [ibw |-> [b EXCEPT !.currentRGB = b.currentRGB + 1], end |-> FALSE]

\* one turn of writeByte's loop over the bits; st.err stops the loop
writeBit(st, i) ==
  IF st.err # "nil" THEN st
  ELSE LET b   == st.ibw
           g2  == Set(st.im, b.currentX, b.currentY,
                      colorEmbed(At(st.im, b.currentX, b.currentY),
                                 b.currentRGB, BitAt(st.data, i)))
           inc == increment(b)
       IN [st EXCEPT !.im = g2, !.ibw = inc.ibw,
                     !.err = IF inc.end THEN "ErrUnexpectedEOF" ELSE "nil"]

\* s = [ibw, im]; returns [ibw, im, err]
writeByte(s, data) ==
  IF s.ibw.capacity <= s.ibw.currentByte
  THEN [ibw |-> s.ibw, im |-> s.im, err |-> "ErrUnexpectedEOF"]
  ELSE LET r == Iterate(writeBit,
                        [ibw |-> s.ibw, im |-> s.im, data |-> data, err |-> "nil"],
                        0, 7)
       IN [ibw |-> r.ibw, im |-> r.im, err |-> r.err]

\* one turn of Write's loop over the bytes; st.err stops the loop
WriteTurn(st, k) ==
  IF st.err # "nil" THEN st
  ELSE LET r == writeByte([ibw |-> st.ibw, im |-> st.im], st.data[k])
       IN IF r.err # "nil"
          THEN [st EXCEPT !.ibw = r.ibw, !.im = r.im, !.n = k - 1, !.err = r.err]
          ELSE [st EXCEPT !.ibw = [r.ibw EXCEPT !.currentByte = r.ibw.currentByte + 1],
                          !.im = r.im, !.n = k]

\* s = [ibw, im]; returns [ibw, im, n, err]
Write(s, data) ==
  LET short == s.ibw.capacity - s.ibw.currentByte < Len(data)
      d     == IF short THEN Take(data, s.ibw.capacity - s.ibw.currentByte) ELSE data
      r     == Iterate(WriteTurn,
                       [ibw |-> s.ibw, im |-> s.im, data |-> d, n |-> 0, err |-> "nil"],
                       1, Len(d))
  IN IF r.err # "nil" THEN [ibw |-> r.ibw, im |-> r.im, n |-> r.n, err |-> r.err]
     ELSE [ibw |-> r.ibw, im |-> r.im, n |-> Len(d),
           err |-> IF short THEN "EOF" ELSE "nil"]

\* the same, without the branch that parks the cursor at row h
setBitPos_NoEnd(b, bitpos) ==
  LET bp == IF bitpos < 0 THEN 0 ELSE bitpos
      y  == (bp \div 3) \div b.w
  IN [ibw |-> [b EXCEPT !.currentRGB = bp % 3, !.currentX = (bp \div 3) % b.w,
                        !.currentY = y],
      err |-> IF y >= b.h THEN "EOF" ELSE "nil"]

\* returns the struct and the error
setBitPos(b, bitpos) ==
  LET bp == IF bitpos < 0 THEN 0 ELSE bitpos
      y  == (bp \div 3) \div b.w
  IN IF y >= b.h
     THEN [ibw |-> [b EXCEPT !.currentY = b.h, !.currentX = 0, !.currentRGB = 0],
           err |-> "EOF"]
     ELSE [ibw |-> [b EXCEPT !.currentRGB = bp % 3, !.currentX = (bp \div 3) % b.w,
                             !.currentY = y],
           err |-> "nil"]

BitPos(b) == (b.currentY * b.w + b.currentX) * 3 + b.currentRGB

SeekStart == 0
SeekCurrent == 1
SeekEnd == 2

\* returns [ibw, n, err]
Seek(b, offset, whence) ==
  IF whence \notin {SeekStart, SeekCurrent, SeekEnd}
  THEN [ibw |-> b, n |-> -1, err |-> "unknown seek whence"]
  ELSE LET currentPos == CASE whence = SeekCurrent -> BitPos(b) \div 8
                           [] whence = SeekStart -> 0
                           [] OTHER -> b.capacity
           r == setBitPos(b, (currentPos + offset) * 8)
       IN [ibw |-> r.ibw, n |-> BitPos(r.ibw) \div 8, err |-> r.err]

\* the loop over i of GetHiddenBytesFromImage, row j
HiddenCol(st, i) ==
  LET c == colorToRGBA(At(st.im, i, st.j))
  IN [st EXCEPT !.bw = WriteBit(WriteBit(WriteBit(st.bw, c.R % 2 # 0),
                                         c.G % 2 # 0), c.B % 2 # 0)]

\* the loop over j of GetHiddenBytesFromImage
HiddenRow(st, j) == Iterate(HiddenCol, [st EXCEPT !.j = j], 0, st.im.w - 1)

\* returns [bytes, err]
GetHiddenBytesFromImage(g) ==
  IF ~SupportedModel(g.model) THEN [bytes |-> <<>>, err |-> "expected a RGBA image"]
  ELSE [bytes |-> Iterate(HiddenRow, [im |-> g, j |-> 0, bw |-> NewBitWriter],
                          0, g.h - 1).bw.inner,
        err |-> "nil"]

-----------------------------------------------------------------------------
(* crypto/sha256 and encoding/binary, as the program uses them.  SHA-256 is  *)
(* an ideal hash: a fixed function to 32 bytes that tells apart all inputs  *)
(* shorter than 32 bytes.                                                  *)

HASH_SIZE == 32
FSIZE_LEN == 4
TIMESTAMP_LEN == 8
RSA_SIZE == 256

MixTurn(st, k) == [st EXCEPT !.acc = (st.acc * 31 + st.d[k] + k) % 65521]
Mix(d) == Iterate(MixTurn, [d |-> d, acc |-> Len(d)], 1, Len(d)).acc

Sum256(d) ==
  LET mix == Mix(d)
  IN [r \in 1..HASH_SIZE |->
        IF r <= Len(d) /\ r < HASH_SIZE
        THEN (d[r] + 101 * r + 17 * Len(d) + 59) % 256
        ELSE IF r = HASH_SIZE THEN (17 * Len(d) + 200) % 256
        ELSE IF r = HASH_SIZE - 1 /\ Len(d) >= HASH_SIZE THEN mix % 256
        ELSE IF r = HASH_SIZE - 2 /\ Len(d) >= HASH_SIZE THEN (mix \div 256) % 256
        ELSE (101 * r + 17 * Len(d) + 200) % 256]

\* binary.BigEndian.PutUint32, for v < 2^31
PutUint32(v) ==
  <<(v \div 16777216) % 256, (v \div 65536) % 256, (v \div 256) % 256, v % 256>>

\* binary.BigEndian.Uint32.  Values from 2^31 on are reported as 2^31 - 1:
\* every use compares the result with a buffer length far below that.
Uint32(b) ==
  IF b[1] >= 128 THEN 2147483647
  ELSE ((b[1] * 256 + b[2]) * 256 + b[3]) * 256 + b[4]

-----------------------------------------------------------------------------
(* math/rand as the program uses it: a source seeded with 8 bytes of the    *)
(* password hash, and Shuffle drawing j in [0, i] for i = n-1 down to 1.    *)
(* The source is a fixed deterministic generator.                          *)

\* rand.NewSource(int64(binary.BigEndian.Uint64(passwordHash[i*8 : i*8+8])))
SeedTurn(st, k) == [st EXCEPT !.acc = (st.acc * 256 + st.d[k]) % 65521]
NewSource(passwordHash, round) ==
  Iterate(SeedTurn, [d |-> passwordHash, acc |-> 1], round * 8 + 1, round * 8 + 8).acc

\* the source's next state
RandNext(x) == (x * 25173 + 13849) % 65536

\* r.int31n(n) on source state x (already advanced)
Int31n(x, n) == (x \div 8) % n

\* the closure given to Shuffle: s[i], s[j] = s[j], s[i] (0-based i, j)
swap(s, i, j) == [s EXCEPT ![i + 1] = s[j + 1], ![j + 1] = s[i + 1]]

\* one turn of Shuffle's loop: i = n - k, for k = 1 .. n-1
ShuffleTurn(st, k) ==
  LET x == RandNext(st.x)
  IN [st EXCEPT !.x = x,
                !.s = swap(st.s, Len(st.s) - k, Int31n(x, Len(st.s) - k + 1))]

\* one of the four rounds: a new source, then r.Shuffle(len(s), swap)
ShuffleRound(st, round) ==
  [st EXCEPT !.s = Iterate(ShuffleTurn,
                           [s |-> st.s, x |-> NewSource(st.passwordHash, round)],
                           1, Len(st.s) - 1).s]

\* the four rounds on a buffer or on the index array
Shuffle4(s, shuffleSeed) ==
  Iterate(ShuffleRound, [s |-> s, passwordHash |-> Sum256(shuffleSeed)], 0, 3).s

\* swaps the data but leaves the index array as it is
RestoreTurn_NoIndexSwap(st, k) ==
  IF st.newidx >= Len(st.data) THEN st
  ELSE LET oldidx == st.indexes[st.newidx + 1]
       IN IF oldidx = st.newidx
          THEN [st EXCEPT !.newidx = st.newidx + 1]
          ELSE [st EXCEPT !.data = swap(st.data, st.newidx, oldidx),
                          !.newidx = st.newidx + 1]

\* one turn of the restoring loops of decodeImage, flattened: either one swap
\* of the inner loop, or the step of the outer loop to the next newidx
RestoreTurn(st, k) ==
  IF st.newidx >= Len(st.data) THEN st
  ELSE LET oldidx == st.indexes[st.newidx + 1]
       IN IF oldidx = st.newidx
          THEN [st EXCEPT !.newidx = st.newidx + 1]
          ELSE [st EXCEPT !.data = swap(st.data, st.newidx, oldidx),
                          !.indexes = swap(st.indexes, st.newidx, oldidx)]

\* the loops over indexes: at most n steps of the outer and n-1 swaps
Restore(data, indexes) ==
  Iterate(RestoreTurn, [data |-> data, indexes |-> indexes, newidx |-> 0],
          1, 2 * Len(data)).data

\* indexes[i] = i
Identity(n) == [k \in 1..n |-> k - 1]

\* decodeImage's unshuffling of the extracted buffer
Unshuffle(data, shuffleSeed) ==
  Restore(data, Shuffle4(Identity(Len(data)), shuffleSeed))

-----------------------------------------------------------------------------
(* crypto/aes + crypto/cipher (GCM) and crypto/rsa (PKCS#1 v1.5), as ideal   *)
(* primitives: opening what was sealed under the same key and nonce gives   *)
(* the plaintext back, anything else fails the tag or padding check.       *)

GCM_OVERHEAD == 16
GCM_NONCE_SIZE == 12
AES_KEY_SIZE == 32
EXTENSION_LEN == 16
RSA_PADDING == 11

\* calculateRSAOverhead: gcm.Overhead()
calculateRSAOverhead == GCM_OVERHEAD

gcmStream(key, nonce, k) ==
  key[((k - 1) % AES_KEY_SIZE) + 1] + nonce[((k - 1) % GCM_NONCE_SIZE) + 1]

gcmTag(key, nonce, ct) == Take(Sum256(key \o nonce \o ct), GCM_OVERHEAD)

\* gcm.Seal(nil, nonce, plaintext, nil)
gcmSeal(key, nonce, plaintext) ==
  LET ct == [k \in 1..Len(plaintext) |->
               (plaintext[k] + gcmStream(key, nonce, k)) % 256]
  IN ct \o gcmTag(key, nonce, ct)

\* gcm.Open(nil, nonce, ciphertext, nil)
gcmOpen(key, nonce, ciphertext) ==
  IF Len(ciphertext) < GCM_OVERHEAD
  THEN [err |-> "cipher: message authentication failed", data |-> <<>>]
  ELSE LET ct == Take(ciphertext, Len(ciphertext) - GCM_OVERHEAD)
       IN IF Drop(ciphertext, Len(ciphertext) - GCM_OVERHEAD) # gcmTag(key, nonce, ct)
          THEN [err |-> "cipher: message authentication failed", data |-> <<>>]
          ELSE [err |-> "nil",
                data |-> [k \in 1..Len(ct) |->
                            (ct[k] + 512 - gcmStream(key, nonce, k)) % 256]]

\* the key files of the one key pair, and what loading them gives
PublicKeyFile == "public_key.pem"
PrivateKeyFile == "private_key.pem"
KeyPair == 91

LoadRSAPublicKey(rsaKeyPath) ==
  IF rsaKeyPath = PublicKeyFile THEN [err |-> "nil", key |-> KeyPair]
  ELSE [err |-> "fauled to parse public key", key |-> 0]

LoadRSAPrivateKey(rsaKeyPath) ==
  IF rsaKeyPath = PrivateKeyFile THEN [err |-> "nil", key |-> KeyPair]
  ELSE [err |-> "fauled to parse private key", key |-> 0]

\* the padded block 00 02 len msg 00.. under the key
rsaBlock(msg) ==
  [k \in 1..RSA_SIZE |->
     IF k = 1 THEN 0
     ELSE IF k = 2 THEN 2
     ELSE IF k = 3 THEN Len(msg)
     ELSE IF k - 3 <= Len(msg) THEN msg[k - 3]
     ELSE 0]

\* rsa.EncryptPKCS1v15(rand.Reader, pub, msg) with a 2048-bit key
rsaEncrypt(pub, msg) ==
  IF Len(msg) > RSA_SIZE - RSA_PADDING
  THEN [err |-> "crypto/rsa: message too long for RSA key size", data |-> <<>>]
  ELSE [err |-> "nil",
        data |-> [k \in 1..RSA_SIZE |-> (rsaBlock(msg)[k] + 77 * k + pub) % 256]]

\* rsa.DecryptPKCS1v15(rand.Reader, priv, ciphertext)
rsaDecrypt(priv, ciphertext) ==
  IF Len(ciphertext) # RSA_SIZE
  THEN [err |-> "crypto/rsa: decryption error", data |-> <<>>]
  ELSE LET blk == [k \in 1..RSA_SIZE |->
                     (ciphertext[k] + 256 * 80 - 77 * k - priv) % 256]
       IN IF \/ blk[1] # 0
             \/ blk[2] # 2
             \/ blk[3] > RSA_SIZE - RSA_PADDING
             \/ \E k \in (blk[3] + 4)..RSA_SIZE : blk[k] # 0
          THEN [err |-> "crypto/rsa: decryption error", data |-> <<>>]
          ELSE [err |-> "nil", data |-> SubSeq(blk, 4, 3 + blk[3])]

\* binary.BigEndian.PutUint64 and Uint64 of a Unix time, for v < 2^31
PutUint64(v) == <<0, 0, 0, 0>> \o PutUint32(v)
Uint64(b) ==
  IF b[1] + b[2] + b[3] + b[4] > 0 THEN 2147483647 ELSE Uint32(Drop(b, 4))

\* returns [encdata, enctail, hashAndLength, err]; hashAndLength is the
\* caller's slice, written in place.  rnd holds what rand.Reader and
\* time.Now give: aesKey, nonce, now.
encryptDataWithRSA(rsaKey, data, extension, hashAndLength, rnd) ==
  LET pub == LoadRSAPublicKey(rsaKey)
      aesResult == gcmSeal(rnd.aesKey, rnd.nonce, data)
      hal == CopyAt(hashAndLength, 0, PutUint32(Len(aesResult)))
      extensionByte == CopyAt([k \in 1..EXTENSION_LEN |-> 0], 0, extension)
      rsaData == rnd.aesKey \o rnd.nonce \o PutUint64(rnd.now) \o extensionByte \o hal
      encrypted == rsaEncrypt(pub.key, rsaData)
  IN IF pub.err # "nil"
     THEN [encdata |-> <<>>, enctail |-> <<>>, hashAndLength |-> hashAndLength,
           err |-> pub.err]
     ELSE IF encrypted.err # "nil"
     THEN [encdata |-> <<>>, enctail |-> <<>>, hashAndLength |-> hal,
           err |-> "failed to encrypt the tail data with RSA"]
     ELSE [encdata |-> aesResult, enctail |-> encrypted.data, hashAndLength |-> hal,
           err |-> "nil"]

NoInfo == [timestamp |-> 0, extension |-> <<>>, length |-> 0, hash |-> <<>>]

\* returns [plainData, info, err]
decryptDataWithRSA(rsaKey, dataBlock, tailBlock) ==
  LET priv == LoadRSAPrivateKey(rsaKey)
      dec == rsaDecrypt(priv.key, tailBlock)
      tail == dec.data
      n == GCM_NONCE_SIZE
      aesKey == Take(tail, AES_KEY_SIZE)
      nonce == SubSeq(tail, AES_KEY_SIZE + 1, AES_KEY_SIZE + n)
      hash == Drop(tail, n + 60)
      dataLength == Uint32(SubSeq(tail, n + 56 + 1, n + 60))
      info == [timestamp |-> Uint64(SubSeq(tail, n + 32 + 1, n + 40)),
               extension |-> SubSeq(tail, n + 40 + 1, n + 56),
               length |-> dataLength,
               hash |-> hash]
      opened == gcmOpen(aesKey, nonce, Take(dataBlock, dataLength))
  IN IF priv.err # "nil" THEN [plainData |-> <<>>, info |-> NoInfo, err |-> priv.err]
     ELSE IF dec.err # "nil"
     THEN [plainData |-> <<>>, info |-> NoInfo,
           err |-> "failed to decrypt the tail block"]
     ELSE IF Len(tail) < n + 60
     THEN [plainData |-> <<>>, info |-> NoInfo, err |-> "panic"]
     ELSE IF Len(hash) # 32
     THEN [plainData |-> <<>>, info |-> NoInfo, err |-> "wrong hash length"]
     ELSE IF dataLength > Len(dataBlock)
     THEN [plainData |-> <<>>, info |-> NoInfo,
           err |-> "length of data is higher than available max length"]
     ELSE IF opened.err # "nil"
     THEN [plainData |-> <<>>, info |-> NoInfo, err |-> "failed to decrypt AES"]
     ELSE [plainData |-> opened.data, info |-> info, err |-> "nil"]

-----------------------------------------------------------------------------
(* Carrier images and buffers the specifications start from *)

MaxW == 7
MaxH == 2
MaxOps == 2

\* channel and byte patterns of the carrier images and of the buffers written
Patterns == {0, 1}

\* a channel value: both parities and all upper bits occur over k
Chan(a, k) == (a * 37 + k * 13 + (k \div 2) + (k \div 3) * 3 + 130) % 256

\* a w x h image of colour model m with channel pattern a
Img(m, w, h, a) ==
  [model |-> m, w |-> w, h |-> h,
   pix |-> [y \in 0..(h - 1) |-> [x \in 0..(w - 1) |->
              [R |-> Chan(a, 4 * (y * w + x)),
               G |-> Chan(a, 4 * (y * w + x) + 1),
               B |-> Chan(a, 4 * (y * w + x) + 2),
               A |-> Chan(a, 4 * (y * w + x) + 3)]]]]

\* a buffer of n bytes with pattern a
Buf(n, a) == [k \in 1..n |-> (a * 89 + k * 53 + 165) % 256]

None == "none"

-----------------------------------------------------------------------------
(* SpecCarrier: Write, Seek and extraction on a freshly constructed writer *)

\* lengths written: nothing, one byte, the capacity, one byte too many
WriteLens(cap) == {0, 1, cap, cap + 1}

\* <<offset, whence>> of the Seek calls made; whence 3 is not a whence
SeekArgs(cap) ==
  ({-1, 0, 1, 2, cap, cap + 1} \X {SeekStart})
    \cup ({-1, 1} \X {SeekCurrent})
    \cup ({-1, 0, 1} \X {SeekEnd})
    \cup {<<0, 3>>}

InitCarrier ==
  /\ \E w \in 1..MaxW, h \in 1..MaxH, a \in Patterns :
       /\ im = Img(IF a = 0 THEN "RGBA" ELSE "NRGBA", w, h, a)
       /\ ibw = NewImageByteWriter(im).ibw
  /\ im0 = im
  /\ ret = [op |-> "new"]
  /\ ops = [writes |-> 0, seeks |-> 0]
  /\ sh = None /\ pc = None /\ p = None /\ q = None /\ dataIn = None
  /\ hiddenData = None /\ loc = None /\ res = None

idleCodec == UNCHANGED <<sh, pc, p, q, dataIn, hiddenData, loc, res>>

CarrierWrite ==
  /\ ops.writes + ops.seeks < MaxOps
  /\ \E n \in WriteLens(ibw.capacity), a \in Patterns :
       LET r == Write([ibw |-> ibw, im |-> im], Buf(n, a))
       IN /\ im' = r.im
          /\ ibw' = r.ibw
          /\ ret' = [op |-> "Write", data |-> Buf(n, a), was |-> ibw,
                     n |-> r.n, err |-> r.err]
  /\ ops' = [ops EXCEPT !.writes = ops.writes + 1]
  /\ UNCHANGED im0
  /\ idleCodec

CarrierSeek ==
  /\ ops.writes + ops.seeks < MaxOps
  /\ \E a \in SeekArgs(ibw.capacity) :
       LET offset == a[1]
           whence == a[2]
           r == Seek(ibw, offset, whence)
       IN /\ ibw' = r.ibw
          /\ ret' = [op |-> "Seek", offset |-> offset, whence |-> whence,
                     was |-> ibw, n |-> r.n, err |-> r.err]
  /\ ops' = [ops EXCEPT !.seeks = ops.seeks + 1]
  /\ UNCHANGED <<im, im0>>
  /\ idleCodec

CarrierExtract ==
  /\ ret.op # "GetHiddenBytesFromImage"
  /\ LET r == GetHiddenBytesFromImage(im)
     IN ret' = [op |-> "GetHiddenBytesFromImage", bytes |-> r.bytes, err |-> r.err,
                after |-> ret]
  /\ UNCHANGED <<im, im0, ibw, ops>>
  /\ idleCodec

NextCarrier == CarrierWrite \/ CarrierSeek \/ CarrierExtract

SpecCarrier == InitCarrier /\ [][NextCarrier]_vars

-----------------------------------------------------------------------------
(* Reading the grid by bit position, for the statements below *)

\* bitpos = (y*w + x)*3 + channel: the least-significant bit of that channel
LsbAt(g, bitpos) ==
  LET c == g.pix[(bitpos \div 3) \div g.w][(bitpos \div 3) % g.w]
  IN CASE bitpos % 3 = 0 -> c.R % 2 = 1
       [] bitpos % 3 = 1 -> c.G % 2 = 1
       [] OTHER -> c.B % 2 = 1

Bits(g) == g.w * g.h * 3

\* the accumulator after the first k channel bits of g were fed to it
FeedBit(st, k) == [st EXCEPT !.bw = WriteBit(st.bw, LsbAt(st.im, k - 1))]
Fed(g, k) == Iterate(FeedBit, [im |-> g, bw |-> NewBitWriter], 1, k).bw

\* C7: Capacity() is floor(width*height*3/8); extraction of a supported grid
\* returns exactly Capacity() bytes whatever width*height*3 mod 8 is; after k
\* WriteBit calls and no Flush the accumulator has emitted floor(k/8) bytes and
\* holds the k mod 8 bits of the partial group, which extraction drops.
C7_CapacityAndExtractionLength ==
  /\ 8 * Capacity(ibw) <= Bits(im)
  /\ Bits(im) < 8 * Capacity(ibw) + 8
  /\ ret.op = "GetHiddenBytesFromImage" =>
       /\ ret.err = "nil"
       /\ Len(ret.bytes) = Capacity(ibw)
       /\ \A k \in {0, 7, 8, 9, 15, 16, Bits(im)} \cap 0..Bits(im) :
            LET bw == Fed(im, k)
            IN /\ Len(bw.inner) = k \div 8
               /\ bw.currentPos = k % 8
               /\ k = Bits(im) => ret.bytes = bw.inner

\* C7 witness: a 7x1 grid (21 bits, 5 left over) was extracted to 2 bytes
C7_Witness ==
  /\ ret.op = "GetHiddenBytesFromImage"
  /\ Bits(im) % 8 = 5
  /\ Len(ret.bytes) = 2

\* C9: on a fresh writer, Write(B) with len(B) = capacity returns (capacity, nil)
\* and puts bit k of byte m in the LSB of the channel at bit position 8m+k,
\* channel fastest, then x, then y, so that extraction returns exactly B.
C9_WriteExtractAgree ==
  (/\ ret.op = "Write"
   /\ ops.writes = 1
   /\ ops.seeks = 0
   /\ Len(ret.data) = Capacity(ibw)) =>
     /\ ret.n = Capacity(ibw)
     /\ ret.err = "nil"
     /\ \A m \in 0..(Capacity(ibw) - 1), k \in 0..7 :
          LsbAt(im, 8 * m + k) = BitAt(ret.data[m + 1], k)
     /\ GetHiddenBytesFromImage(im).bytes = ret.data

\* C9 witness: a 4x2 grid took a first Write of its whole capacity, 3 bytes
C9_Witness ==
  /\ ret.op = "Write"
  /\ ops.writes = 1
  /\ ops.seeks = 0
  /\ im.w = 4
  /\ im.h = 2
  /\ Len(ret.data) = 3
  /\ ret.n = 3
  /\ im # im0

\* what a carrier write may not touch: alpha, the upper 7 bits of a colour
\* channel, and the channel LSBs at bit positions from 8*capacity on
FrameKept(g0, g, cap) ==
  /\ g.w = g0.w
  /\ g.h = g0.h
  /\ g.model = g0.model
  /\ \A y \in 0..(g.h - 1), x \in 0..(g.w - 1) :
       /\ g.pix[y][x].A = g0.pix[y][x].A
       /\ g.pix[y][x].R \div 2 = g0.pix[y][x].R \div 2
       /\ g.pix[y][x].G \div 2 = g0.pix[y][x].G \div 2
       /\ g.pix[y][x].B \div 2 = g0.pix[y][x].B \div 2
  /\ \A b \in (8 * cap)..(Bits(g) - 1) : LsbAt(g, b) = LsbAt(g0, b)

\* C10: any sequence of Write calls (no Seek among them) changes only channel
\* LSBs at bit positions below 8*capacity: the upper 7 bits of every colour
\* channel, every alpha and the trailing width*height*3 mod 8 LSBs are kept.
C10_WriteFrame ==
  ops.seeks = 0 => FrameKept(im0, im, Capacity(ibw))

\* C10 witness: two Write calls changed a grid that has trailing bits
C10_Witness ==
  /\ ops.writes = 2
  /\ ops.seeks = 0
  /\ Bits(im) % 8 # 0
  /\ im # im0
  /\ ibw.currentByte = Capacity(ibw)

-----------------------------------------------------------------------------
(* SpecShuffle: the generator's draws are arbitrary.  The encoder applies   *)
(* each draw to its buffer and the decoder, replaying the same source, to   *)
(* its index array; then the decoder restores.                             *)

MaxN == 4
Rounds == 4

\* where Shuffle's loops stand after the turn (round, i); i counts down to 1
AfterTurn(n, round, i) ==
  IF i > 1 THEN [round |-> round, i |-> i - 1]
  ELSE [round |-> round + 1, i |-> n - 1]

InitShuffle ==
  /\ \E n \in 0..MaxN, a \in Patterns \cup {2} :
       sh = [B |-> IF a = 2 THEN [k \in 1..n |-> 7] ELSE Buf(n, a),
             data |-> IF a = 2 THEN [k \in 1..n |-> 7] ELSE Buf(n, a),
             indexes |-> Identity(n),
             round |-> IF n > 1 THEN 0 ELSE Rounds,
             i |-> n - 1,
             restored |-> FALSE]
  /\ im = None /\ im0 = None /\ ibw = None /\ ret = None /\ ops = None
  /\ pc = None /\ p = None /\ q = None /\ dataIn = None
  /\ hiddenData = None /\ loc = None /\ res = None

idleShuffle ==
  UNCHANGED <<im, im0, ibw, ret, ops, pc, p, q, dataIn, hiddenData, loc, res>>

\* one draw j of the source, used by both sides
ShuffleDraw ==
  /\ sh.round < Rounds
  /\ \E j \in 0..sh.i :
       sh' = [sh EXCEPT !.data = swap(sh.data, sh.i, j),
                        !.indexes = swap(sh.indexes, sh.i, j),
                        !.round = AfterTurn(Len(sh.B), sh.round, sh.i).round,
                        !.i = AfterTurn(Len(sh.B), sh.round, sh.i).i]
  /\ idleShuffle

ShuffleRestore ==
  /\ sh.round = Rounds
  /\ ~sh.restored
  /\ sh' = [sh EXCEPT !.data = Restore(sh.data, sh.indexes), !.restored = TRUE]
  /\ idleShuffle

NextShuffle == ShuffleDraw \/ ShuffleRestore

SpecShuffle == InitShuffle /\ [][NextShuffle]_vars

\* C3: whatever the draws j in [0, i] of the four descending Fisher-Yates
\* rounds, replaying them on an identity index array and following the cycles
\* (swap data[i] with data[idx[i]] and idx[i] with idx[idx[i]] until
\* idx[i] = i, for i = 0..n-1) gives back the buffer that was shuffled.
C3_UnshuffleInvertsShuffle ==
  /\ sh.restored => sh.data = sh.B
  /\ ~sh.restored =>
       \A k \in 1..Len(sh.B) : sh.data[k] = sh.B[sh.indexes[k] + 1]

\* C3 witness: a buffer of 4 distinct bytes was restored
C3_Witness ==
  /\ sh.restored
  /\ Len(sh.B) = 4
  /\ sh.indexes # Identity(4)
  /\ sh.B[1] # sh.B[2]
  /\ sh.data = sh.B

-----------------------------------------------------------------------------
(* Spec: one run of encodeImage, then possibly an alteration of the image,  *)
(* then one run of decodeImage on it.  pc names the step the running call   *)
(* takes next; the steps are the blocks of the two functions, in order.     *)

MaxPayload == 2

\* grids by capacity: 6; 36 (no bit left over); 37; 38; 272; 273
SmallGrids == {<<4, 4>>, <<8, 12>>, <<9, 11>>, <<6, 17>>}
BigGrids == {<<22, 33>>, <<27, 27>>}

Carriers ==
  {Img(IF a = 0 THEN "RGBA" ELSE "NRGBA", g[1], g[2], a) : g \in SmallGrids, a \in Patterns}
    \cup {Img("RGBA", g[1], g[2], 0) : g \in BigGrids}
    \cup {Img("Gray", 9, 11, 0)}

\* -ss: no seed, or "abc"
Seeds == {<<>>, <<97, 98, 99>>}
\* -k on the encoding side: none, the public key, or (wrongly) the private key
KeyFiles == {"", PublicKeyFile, PrivateKeyFile}
\* filepath.Ext(p.dataFile): ".tar"
Extension == <<46, 116, 97, 114>>
\* what rand.Reader and time.Now give to encryptDataWithRSA
Rnd == [aesKey |-> [k \in 1..AES_KEY_SIZE |-> (k * 3 + 9) % 256],
        nonce |-> [k \in 1..GCM_NONCE_SIZE |-> (k * 5 + 1) % 256],
        now |-> 1700000000]

\* the same, with the shuffle moved before the tail is written
EncOrder_ShuffleEarly ==
  <<"enc_check", "enc_extract", "enc_copy", "enc_shuffle", "enc_tail", "enc_seal",
    "enc_write", "enc_return">>

EncOrder ==
  <<"enc_check", "enc_extract", "enc_copy", "enc_tail", "enc_seal", "enc_shuffle",
    "enc_write", "enc_return">>
DecOrder ==
  <<"dec_extract", "dec_unshuffle", "dec_decrypt", "dec_hash_enc", "dec_emit_enc",
    "dec_parse", "dec_hash", "dec_emit", "dec_return">>

\* whether the block is executed under the flags of prog
Runs(prog, stage) ==
  CASE stage = "enc_seal" -> prog.keyFile # ""
    [] stage \in {"enc_shuffle", "dec_unshuffle"} -> prog.shuffleSeed # <<>>
    [] stage \in {"dec_decrypt", "dec_emit_enc"} -> prog.keyFile # ""
    [] stage = "dec_hash_enc" -> prog.keyFile # "" /\ prog.doHash
    [] stage \in {"dec_parse", "dec_emit"} -> prog.keyFile = ""
    [] stage = "dec_hash" -> prog.keyFile = "" /\ prog.doHash
    [] OTHER -> TRUE

\* the next block executed after `stage`, in the order of the function body
After(order, prog, stage) ==
  LET at == CHOOSE k \in 1..Len(order) : order[k] = stage
      later == {k \in (at + 1)..Len(order) : Runs(prog, order[k])}
  IN order[CHOOSE k \in later : \A l \in later : k <= l]

\* the same, with the size field left out of the plain requirement
Required_NoSizeField(prog, sz) ==
  IF prog.keyFile # "" THEN sz + calculateRSAOverhead + RSA_SIZE
  ELSE sz + HASH_SIZE

\* required := sz + HASH_SIZE + FSIZE_LEN, or sz + overhead + RSA_SIZE with a key
Required(prog, sz) ==
  IF prog.keyFile # "" THEN sz + calculateRSAOverhead + RSA_SIZE
  ELSE sz + HASH_SIZE + FSIZE_LEN

NoLocals ==
  [sz |-> 0, overhead |-> 0, dataLength |-> 0, plainData |-> <<>>, info |-> NoInfo]

InitCodec ==
  /\ im \in Carriers
  /\ im0 = im
  /\ \E n \in 0..MaxPayload, b \in Patterns :
       dataIn = [bytes |-> Buf(n, b), ext |-> Extension]
  /\ \E doHash \in BOOLEAN, seed \in Seeds, key \in KeyFiles :
       /\ <<im.w, im.h>> \in BigGrids => key # ""
       /\ p = [decode |-> FALSE, doHash |-> doHash, shuffleSeed |-> seed,
               keyFile |-> key]
  /\ q = p
  /\ pc = "enc_check"
  /\ ibw = [currentX |-> 0, currentY |-> 0, currentRGB |-> 0, currentByte |-> 0,
            w |-> 0, h |-> 0, capacity |-> 0]
  /\ hiddenData = <<>>
  /\ loc = NoLocals
  /\ res = [enc |-> "running", dec |-> "none", out |-> <<>>, info |-> NoInfo,
            trace |-> <<>>, envelope |-> <<>>, altered |-> <<"no">>]
  /\ ret = None /\ ops = None /\ sh = None

idleCarrier == UNCHANGED <<ret, ops, sh, im0, dataIn>>

\* the call returns err
Return(call, err) ==
  /\ pc' = IF call = "enc" THEN "enc_return" ELSE "dec_return"
  /\ res' = [res EXCEPT ![call] = err, !.trace = Append(res.trace, pc)]

\* the call goes on to its next block
GoOn(order) ==
  /\ pc' = After(order, p, pc)
  /\ res' = [res EXCEPT !.trace = Append(res.trace, pc)]

(* encodeImage *)

\* the writer, the data size and the capacity check
EncCheck ==
  /\ pc = "enc_check"
  /\ LET nw == NewImageByteWriter(im)
         sz == Len(dataIn.bytes)
     IN IF nw.err # "nil"
        THEN /\ Return("enc", "failed to create image byte writer")
             /\ UNCHANGED <<ibw, loc>>
        ELSE /\ ibw' = nw.ibw
             /\ loc' = [loc EXCEPT !.sz = sz,
                                   !.overhead = IF p.keyFile # ""
                                                THEN calculateRSAOverhead ELSE 0]
             /\ IF Capacity(nw.ibw) < Required(p, sz)
                THEN Return("enc", "image capacity is too small")
                ELSE GoOn(EncOrder)
  /\ UNCHANGED <<im, p, q, hiddenData>>
  /\ idleCarrier

\* the same, with a fresh zeroed buffer in place of the carrier's bytes
EncExtract_ZeroBuffer ==
  /\ pc = "enc_extract"
  /\ hiddenData' = [k \in 1..Capacity(ibw) |-> 0]
  /\ GoOn(EncOrder)
  /\ UNCHANGED <<im, ibw, p, q, loc>>
  /\ idleCarrier

\* hiddenData, err := GetHiddenBytesFromImage(wi)
EncExtract ==
  /\ pc = "enc_extract"
  /\ LET r == GetHiddenBytesFromImage(im)
     IN IF r.err # "nil"
        THEN /\ Return("enc", "failed to extract initial image data")
             /\ UNCHANGED hiddenData
        ELSE /\ hiddenData' = r.bytes
             /\ GoOn(EncOrder)
  /\ UNCHANGED <<im, ibw, p, q, loc>>
  /\ idleCarrier

\* io.ReadFull(data, hiddenData[:sz])
EncCopy ==
  /\ pc = "enc_copy"
  /\ hiddenData' = CopyAt(hiddenData, 0, Take(dataIn.bytes, loc.sz))
  /\ GoOn(EncOrder)
  /\ UNCHANGED <<im, ibw, p, q, loc>>
  /\ idleCarrier

\* the same, with the hash written whatever doHash says
TailOf_AlwaysHash(prog, buf, sz) ==
  LET sizePos == Len(buf) - HASH_SIZE - FSIZE_LEN
      sized == CopyAt(buf, sizePos, PutUint32(sz))
  IN CopyAt(sized, Len(buf) - HASH_SIZE, Sum256(Take(sized, sz)))

\* the data size at len-36 and, with doHash, the hash at len-32
TailOf(prog, buf, sz) ==
  LET sizePos == Len(buf) - HASH_SIZE - FSIZE_LEN
      sized == CopyAt(buf, sizePos, PutUint32(sz))
  IN IF prog.doHash
     THEN CopyAt(sized, Len(buf) - HASH_SIZE, Sum256(Take(sized, sz)))
     ELSE sized

EncTail ==
  /\ pc = "enc_tail"
  /\ hiddenData' = TailOf(p, hiddenData, loc.sz)
  /\ pc' = After(EncOrder, p, pc)
  /\ res' = [res EXCEPT !.trace = Append(res.trace, pc), !.envelope = hiddenData']
  /\ UNCHANGED <<im, ibw, p, q, loc>>
  /\ idleCarrier

\* the encryption block: returns [hiddenData, err]
SealOf(prog, buf, sz, overhead, extension, rnd) ==
  LET sizePos == Len(buf) - HASH_SIZE - FSIZE_LEN
      e == encryptDataWithRSA(prog.keyFile, Take(buf, sz), extension,
                              Drop(buf, sizePos), rnd)
      aliased == CopyAt(buf, sizePos, e.hashAndLength)
  IN IF e.err # "nil" THEN [hiddenData |-> aliased, err |-> e.err]
     ELSE IF Len(e.encdata) > sz + overhead
     THEN [hiddenData |-> aliased,
           err |-> "AES128 encrypted data is larger than maximum expected size"]
     ELSE IF Len(e.enctail) # RSA_SIZE
     THEN [hiddenData |-> aliased, err |-> "RSA data is not of expected size"]
     ELSE [hiddenData |-> CopyAt(CopyAt(aliased, 0, e.encdata),
                                 Len(buf) - RSA_SIZE, e.enctail),
           err |-> "nil"]

EncSeal ==
  /\ pc = "enc_seal"
  /\ LET r == SealOf(p, hiddenData, loc.sz, loc.overhead, dataIn.ext, Rnd)
     IN /\ hiddenData' = r.hiddenData
        /\ IF r.err # "nil"
           THEN Return("enc", r.err)
           ELSE /\ pc' = After(EncOrder, p, pc)
                /\ res' = [res EXCEPT !.trace = Append(res.trace, pc),
                                      !.envelope = r.hiddenData]
  /\ UNCHANGED <<im, ibw, p, q, loc>>
  /\ idleCarrier

EncShuffle ==
  /\ pc = "enc_shuffle"
  /\ hiddenData' = Shuffle4(hiddenData, p.shuffleSeed)
  /\ GoOn(EncOrder)
  /\ UNCHANGED <<im, ibw, p, q, loc>>
  /\ idleCarrier

\* ibw.Write(hiddenData)
EncWrite ==
  /\ pc = "enc_write"
  /\ LET r == Write([ibw |-> ibw, im |-> im], hiddenData)
     IN /\ im' = r.im
        /\ ibw' = r.ibw
        /\ Return("enc", IF r.err # "nil"
                         THEN "failed to write hidden data to the image" ELSE "nil")
  /\ UNCHANGED <<p, q, hiddenData, loc>>
  /\ idleCarrier

(* the image between the two runs *)

\* the envelope a decoder with this seed finds in g, and g holding envelope env
EnvelopeOf(g, seed) ==
  IF seed # <<>> THEN Unshuffle(GetHiddenBytesFromImage(g).bytes, seed)
  ELSE GetHiddenBytesFromImage(g).bytes

Holding(g, seed, env) ==
  Write([ibw |-> NewImageByteWriter(g).ibw, im |-> g],
        IF seed # <<>> THEN Shuffle4(env, seed) ELSE env).im

FlipBit(buf, bit) ==
  [buf EXCEPT ![bit \div 8 + 1] =
     IF BitAt(buf[bit \div 8 + 1], bit % 8)
     THEN buf[bit \div 8 + 1] - Pow2(bit % 8)
     ELSE buf[bit \div 8 + 1] + Pow2(bit % 8)]

\* the bits of the 32-byte hash region that get flipped: every 37th and the last
HashBits == {b \in 0..(8 * HASH_SIZE - 1) : b % 37 = 0 \/ b = 8 * HASH_SIZE - 1}

\* one bit of the hash region of a plain envelope is flipped in the image
TamperHash ==
  /\ pc = "enc_return"
  /\ res.enc = "nil"
  /\ p.keyFile = ""
  /\ res.altered = <<"no">>
  /\ \E b \in HashBits :
       /\ im' = Holding(im, p.shuffleSeed,
                        FlipBit(EnvelopeOf(im, p.shuffleSeed),
                                8 * (ibw.capacity - HASH_SIZE) + b))
       /\ res' = [res EXCEPT !.altered = <<"hash", b>>]
  /\ UNCHANGED <<pc, ibw, p, q, hiddenData, loc>>
  /\ idleCarrier

\* the length fields put into an image: 0, len-36, len-36+1, 2^32-1
ForgedLengths(cap) ==
  {PutUint32(0), PutUint32(cap - HASH_SIZE - FSIZE_LEN),
   PutUint32(cap - HASH_SIZE - FSIZE_LEN + 1), <<255, 255, 255, 255>>}

\* the length field of a plain envelope is replaced in the image
ForgeLength ==
  /\ pc = "enc_return"
  /\ res.enc = "nil"
  /\ p.keyFile = ""
  /\ res.altered = <<"no">>
  /\ \E v \in ForgedLengths(ibw.capacity) :
       /\ im' = Holding(im, p.shuffleSeed,
                        CopyAt(EnvelopeOf(im, p.shuffleSeed),
                               ibw.capacity - HASH_SIZE - FSIZE_LEN, v))
       /\ res' = [res EXCEPT !.altered = <<"length", v>>]
  /\ UNCHANGED <<pc, ibw, p, q, hiddenData, loc>>
  /\ idleCarrier

\* the decoding side is started on the image, with the same seed, the private
\* key if a key was given, and its own -nh flag
StartDecode ==
  /\ pc = "enc_return"
  /\ \E doHash \in BOOLEAN :
       p' = [decode |-> TRUE, doHash |-> doHash, shuffleSeed |-> p.shuffleSeed,
             keyFile |-> IF p.keyFile = "" THEN "" ELSE PrivateKeyFile]
  /\ q' = p
  /\ pc' = "dec_extract"
  /\ hiddenData' = <<>>
  /\ loc' = NoLocals
  /\ res' = [res EXCEPT !.dec = "running"]
  /\ UNCHANGED <<im, ibw>>
  /\ idleCarrier

(* decodeImage *)

DecExtract ==
  /\ pc = "dec_extract"
  /\ LET r == GetHiddenBytesFromImage(im)
     IN IF r.err # "nil"
        THEN /\ Return("dec", "failed to get hidden data from image")
             /\ UNCHANGED hiddenData
        ELSE /\ hiddenData' = r.bytes
             /\ GoOn(DecOrder)
  /\ UNCHANGED <<im, ibw, p, q, loc>>
  /\ idleCarrier

DecUnshuffle ==
  /\ pc = "dec_unshuffle"
  /\ hiddenData' = Unshuffle(hiddenData, p.shuffleSeed)
  /\ GoOn(DecOrder)
  /\ UNCHANGED <<im, ibw, p, q, loc>>
  /\ idleCarrier

\* pos := len(hiddenData) - RSA_SIZE; the slices; decryptDataWithRSA; the
\* report of info.  A negative pos is a slice out of range: the call panics.
DecDecrypt ==
  /\ pc = "dec_decrypt"
  /\ LET pos == Len(hiddenData) - RSA_SIZE
         r == decryptDataWithRSA(p.keyFile, Take(hiddenData, pos),
                                 Drop(hiddenData, pos))
     IN IF pos < 0
        THEN /\ Return("dec", "panic")
             /\ UNCHANGED loc
        ELSE IF r.err # "nil"
        THEN /\ Return("dec", r.err)
             /\ UNCHANGED loc
        ELSE /\ loc' = [loc EXCEPT !.plainData = r.plainData, !.info = r.info]
             /\ pc' = After(DecOrder, p, pc)
             /\ res' = [res EXCEPT !.trace = Append(res.trace, pc), !.info = r.info]
  /\ UNCHANGED <<im, ibw, p, q, hiddenData>>
  /\ idleCarrier

DecHashEnc ==
  /\ pc = "dec_hash_enc"
  /\ IF loc.info.hash # Sum256(loc.plainData)
     THEN Return("dec", "hash check failed")
     ELSE GoOn(DecOrder)
  /\ UNCHANGED <<im, ibw, p, q, hiddenData, loc>>
  /\ idleCarrier

DecEmitEnc ==
  /\ pc = "dec_emit_enc"
  /\ pc' = "dec_return"
  /\ res' = [res EXCEPT !.dec = "nil", !.out = loc.plainData,
                        !.trace = Append(res.trace, pc)]
  /\ UNCHANGED <<im, ibw, p, q, hiddenData, loc>>
  /\ idleCarrier

\* the same, with the length check refusing dataLength = lenStart
ParseLength_Strict(buf) ==
  LET lenStart == Len(buf) - HASH_SIZE - FSIZE_LEN
      dataLength == Uint32(SubSeq(buf, lenStart + 1, lenStart + FSIZE_LEN))
  IN [dataLength |-> dataLength,
      err |-> IF dataLength = 0 THEN "data length is zero"
              ELSE IF dataLength >= lenStart THEN "length is too large"
              ELSE "nil"]

\* lenStart, dataLength and the two checks on it, for len(buf) >= 36
ParseLength(buf) ==
  LET lenStart == Len(buf) - HASH_SIZE - FSIZE_LEN
      dataLength == Uint32(SubSeq(buf, lenStart + 1, lenStart + FSIZE_LEN))
  IN [dataLength |-> dataLength,
      err |-> IF dataLength = 0 THEN "data length is zero"
              ELSE IF dataLength > lenStart THEN "length is too large"
              ELSE "nil"]

\* A negative lenStart is a slice out of range: the call panics.
DecParse ==
  /\ pc = "dec_parse"
  /\ IF Len(hiddenData) - HASH_SIZE - FSIZE_LEN < 0
     THEN /\ Return("dec", "panic")
          /\ UNCHANGED loc
     ELSE LET r == ParseLength(hiddenData)
          IN /\ loc' = [loc EXCEPT !.dataLength = r.dataLength]
             /\ IF r.err # "nil" THEN Return("dec", r.err) ELSE GoOn(DecOrder)
  /\ UNCHANGED <<im, ibw, p, q, hiddenData>>
  /\ idleCarrier

DecHash ==
  /\ pc = "dec_hash"
  /\ IF Sum256(Take(hiddenData, loc.dataLength))
          # Drop(hiddenData, Len(hiddenData) - HASH_SIZE)
     THEN Return("dec", "data hash verification failed")
     ELSE GoOn(DecOrder)
  /\ UNCHANGED <<im, ibw, p, q, hiddenData, loc>>
  /\ idleCarrier

DecEmit ==
  /\ pc = "dec_emit"
  /\ pc' = "dec_return"
  /\ res' = [res EXCEPT !.dec = "nil", !.out = Take(hiddenData, loc.dataLength),
                        !.trace = Append(res.trace, pc)]
  /\ UNCHANGED <<im, ibw, p, q, hiddenData, loc>>
  /\ idleCarrier

Next ==
  \/ EncCheck \/ EncExtract \/ EncCopy \/ EncTail \/ EncSeal \/ EncShuffle \/ EncWrite
  \/ TamperHash \/ ForgeLength \/ StartDecode
  \/ DecExtract \/ DecUnshuffle \/ DecDecrypt \/ DecHashEnc \/ DecEmitEnc
  \/ DecParse \/ DecHash \/ DecEmit

Spec == InitCodec /\ [][Next]_vars

-----------------------------------------------------------------------------
(* Properties of the codec, checked under Spec *)

\* the capacity of the carrier the run started from
Cap == (im0.w * im0.h * 3) \div 8
\* the payload handed to the encoder
P == dataIn.bytes
\* both runs are over, and nothing touched the image in between
RoundTripDone ==
  pc = "dec_return" /\ res.altered = <<"no">> /\ SupportedModel(im0.model)
\* the bytes the carrier held at [capacity-32, capacity) before encoding
CarrierTail == Drop(GetHiddenBytesFromImage(im0).bytes, Cap - HASH_SIZE)

\* C1: for every payload P with 0 <= len(P) <= capacity-36, the empty one
\* included, every carrier and every configuration (seed or none, hashing on
\* or off, the same on both sides), decodeImage of the image made by
\* encodeImage(P) succeeds and emits exactly P.
C1_PlainRoundTrip ==
  (RoundTripDone /\ q.keyFile = "" /\ p.doHash = q.doHash /\ Len(P) <= Cap - 36)
    => (res.enc = "nil" /\ res.dec = "nil" /\ res.out = P)

\* C2, as stated: for every P with len(P) + 16 + 256 <= capacity and both
\* settings of the hash flag at encoding time, decoding with the private key
\* returns P, and the hash recovered from the RSA tail is SHA-256(P).
C2_EncryptedRoundTrip ==
  (RoundTripDone /\ q.keyFile = PublicKeyFile /\ p.doHash = q.doHash
     /\ Len(P) + 16 + 256 <= Cap)
    => (res.enc = "nil" /\ res.dec = "nil" /\ res.out = P
        /\ res.info.hash = Sum256(P))

\* C2, amended: for every P with len(P) + 16 + 256 <= capacity, encoding
\* succeeds; the hash recovered from the RSA tail is SHA-256(P) when hashing
\* was on at encoding time, and otherwise the 32 bytes the carrier held at
\* its end; decoding with the private key returns exactly P unless the
\* decoder checks the hash and the recovered hash is not SHA-256(P), in which
\* case it fails with "hash check failed" and emits nothing.
C2_EncryptedRoundTripHashed ==
  (RoundTripDone /\ q.keyFile = PublicKeyFile /\ Len(P) + 16 + 256 <= Cap)
    => LET tail == IF q.doHash THEN Sum256(P) ELSE CarrierTail
       IN /\ res.enc = "nil"
          /\ res.info.hash = tail
          /\ IF p.doHash /\ tail # Sum256(P)
             THEN res.dec = "hash check failed" /\ res.out = <<>>
             ELSE res.dec = "nil" /\ res.out = P

C2_Witness ==
  /\ RoundTripDone /\ q.keyFile = PublicKeyFile
  /\ ~q.doHash /\ ~p.doHash /\ q.shuffleSeed # <<>>
  /\ Len(P) + 16 + 256 = Cap
  /\ res.dec = "nil" /\ res.out = P
  /\ res.info.hash = CarrierTail /\ res.info.hash # Sum256(P)

\* C4: on a supported image, encodeImage fails with the capacity error
\* exactly when sz + 36 > capacity without a key, or sz + 16 + 256 > capacity
\* with one; and whenever encodeImage returns an error, and as long as it has
\* not reached its write, the pixel grid is the one it was given.
C4_CapacityCheck ==
  LET sz == Len(P)
      need == IF q.keyFile = "" THEN sz + 36 ELSE sz + 16 + 256
  IN /\ (pc # "enc_check" /\ SupportedModel(im0.model))
          => ((res.enc = "image capacity is too small") <=> (need > Cap))
     /\ res.enc \notin {"running", "nil"} => im = im0
     /\ res.enc = "running" => im = im0

C4_Witness ==
  /\ res.enc = "image capacity is too small"
  /\ im0.w = 4 /\ im0.h = 4 /\ Cap = 6
  /\ q.keyFile = "" /\ Len(P) = 1
  /\ pc = "enc_return" /\ im = im0

\* the length field a plain decoder finds in the image
StoredLength ==
  Uint32(SubSeq(EnvelopeOf(im, p.shuffleSeed), Cap - 36 + 1, Cap - 36 + FSIZE_LEN))
\* the plain decoder has returned, from an image of 36 bytes or more
PlainDecoded ==
  /\ pc = "dec_return" /\ p.keyFile = "" /\ SupportedModel(im0.model)
  /\ Cap >= 36

\* C5, as stated: a stored length equal to capacity-36 passes the length
\* check; capacity-36+1 or more is rejected, 0 is rejected, and in both
\* rejections nothing is emitted.
C5_LengthBoundary ==
  PlainDecoded =>
    /\ StoredLength = Cap - 36
         => res.dec \notin {"data length is zero", "length is too large"}
    /\ StoredLength > Cap - 36
         => res.dec = "length is too large" /\ res.out = <<>>
    /\ StoredLength = 0 => res.dec = "data length is zero" /\ res.out = <<>>

\* C5, amended: a stored length of 0 is rejected ("data length is zero"),
\* also when capacity-36 = 0; a stored length above capacity-36 is rejected
\* ("length is too large"); in both rejections nothing is emitted; every
\* stored length from 1 to capacity-36, capacity-36 included, passes the
\* length check.
C5_LengthBoundaryNonZero ==
  PlainDecoded =>
    /\ (1 <= StoredLength /\ StoredLength <= Cap - 36)
         => res.dec \notin {"data length is zero", "length is too large"}
    /\ StoredLength > Cap - 36
         => res.dec = "length is too large" /\ res.out = <<>>
    /\ StoredLength = 0 => res.dec = "data length is zero" /\ res.out = <<>>

C5_Witness ==
  /\ PlainDecoded
  /\ res.altered = <<"length", PutUint32(Cap - 36)>>
  /\ Cap - 36 = 2 /\ StoredLength = Cap - 36
  /\ p.shuffleSeed # <<>>
  /\ res.dec = "nil" /\ Len(res.out) = Cap - 36

\* C6: for every plain envelope made by encode with hashing on, flipping one
\* bit of the trailing 32-byte hash region makes decode, with the hash check
\* on, fail with the hash-mismatch error and emit nothing.
C6_TamperDetected ==
  (pc = "dec_return" /\ res.altered[1] = "hash" /\ q.doHash /\ p.doHash)
    => (res.dec = "data hash verification failed" /\ res.out = <<>>)

\* the blocks of both functions, in the order of the claim
Pipeline ==
  <<"enc_check", "enc_extract", "enc_copy", "enc_tail", "enc_seal", "enc_shuffle",
    "enc_write",
    "dec_extract", "dec_unshuffle", "dec_decrypt", "dec_hash_enc", "dec_emit_enc",
    "dec_parse", "dec_hash", "dec_emit">>
Place(stage) == CHOOSE k \in 1..Len(Pipeline) : Pipeline[k] = stage
Ran(stage) == \E k \in 1..Len(res.trace) : res.trace[k] = stage
\* the fields of the envelope are in buf
FieldsIn(buf) ==
  IF q.keyFile = ""
  THEN /\ Take(buf, Len(P)) = P
       /\ SubSeq(buf, Cap - 36 + 1, Cap - 32) = PutUint32(Len(P))
       /\ q.doHash => Drop(buf, Cap - 32) = Sum256(P)
  ELSE LET d == decryptDataWithRSA(PrivateKeyFile, Take(buf, Cap - RSA_SIZE),
                                   Drop(buf, Cap - RSA_SIZE))
       IN d.err = "nil" /\ d.plainData = P

\* C8: the blocks run in the order check, extract, copy, length and hash,
\* seal, shuffle, write on the encoding side and extract, unshuffle,
\* parse or decrypt, verify, emit on the decoding side; the image is not
\* written before the last block of encode; the buffer that is shuffled and
\* written holds every length, hash and encryption field, and the image holds
\* it from position zero; the buffer the decoder parses or decrypts is the
\* unshuffled one.
C8_PipelineOrder ==
  /\ \A i, j \in 1..Len(res.trace) :
       i < j => Place(res.trace[i]) < Place(res.trace[j])
  /\ pc \in {"enc_check", "enc_extract", "enc_copy", "enc_tail", "enc_seal",
             "enc_shuffle", "enc_write"} => im = im0
  /\ pc \in {"enc_shuffle", "enc_write"}
       => /\ Ran("enc_check") /\ Ran("enc_extract") /\ Ran("enc_copy")
          /\ Ran("enc_tail") /\ (q.keyFile # "" => Ran("enc_seal"))
          /\ FieldsIn(res.envelope)
  /\ pc = "enc_shuffle" => hiddenData = res.envelope
  /\ pc = "enc_write"
       => hiddenData = IF q.shuffleSeed # <<>>
                       THEN Shuffle4(res.envelope, q.shuffleSeed)
                       ELSE res.envelope
  /\ (pc = "enc_return" /\ res.enc = "nil" /\ res.altered = <<"no">>)
       => /\ Ran("enc_write")
          /\ (q.shuffleSeed # <<>> <=> Ran("enc_shuffle"))
          /\ GetHiddenBytesFromImage(im).bytes = hiddenData
  /\ pc \in {"dec_decrypt", "dec_hash_enc", "dec_emit_enc", "dec_parse", "dec_hash",
             "dec_emit"}
       => /\ Ran("dec_extract")
          /\ (p.shuffleSeed # <<>> <=> Ran("dec_unshuffle"))
          /\ hiddenData = EnvelopeOf(im, p.shuffleSeed)
          /\ (res.enc = "nil" /\ res.altered = <<"no">>) => hiddenData = res.envelope
  /\ res.dec = "nil"
       => /\ Ran("dec_parse") \/ Ran("dec_decrypt")
          /\ p.doHash => Ran("dec_hash") \/ Ran("dec_hash_enc")
          /\ res.trace[Len(res.trace)] \in {"dec_emit", "dec_emit_enc"}

C8_Witness ==
  /\ pc = "dec_return" /\ res.dec = "nil" /\ res.out = P /\ Len(P) = 2
  /\ res.trace = <<"enc_check", "enc_extract", "enc_copy", "enc_tail", "enc_shuffle",
                   "enc_write", "dec_extract", "dec_unshuffle", "dec_parse", "dec_hash",
                   "dec_emit">>

\* a plain encode without a seed has returned nil, and the image is as it left it
PlainEncoded ==
  /\ pc = "enc_return" /\ res.enc = "nil" /\ res.altered = <<"no">>
  /\ q.keyFile = "" /\ q.shuffleSeed = <<>>

\* C11: after a successful plain encode without a seed of a payload of sz
\* bytes, the bytes extracted from the output image at offsets
\* [sz, capacity-36) are the bytes extracted from the input image there.
C11_MiddleKept ==
  PlainEncoded =>
    SubSeq(GetHiddenBytesFromImage(im).bytes, Len(P) + 1, Cap - 36)
      = SubSeq(GetHiddenBytesFromImage(im0).bytes, Len(P) + 1, Cap - 36)

C11_Witness ==
  /\ PlainEncoded
  /\ Len(P) = 1 /\ Cap - 36 = 2
  /\ im # im0
  /\ GetHiddenBytesFromImage(im0).bytes[2] # 0
  /\ GetHiddenBytesFromImage(im).bytes[2] = GetHiddenBytesFromImage(im0).bytes[2]

-----------------------------------------------------------------------------
(* The cursor of the writer, checked under SpecCarrier *)

\* C12, as stated: after any sequence of Write and Seek calls the cursor
\* (currentY*w + currentX)*3 + currentRGB is in 0..w*h*3-1 and is the
\* position of an in-grid (x, y, channel): 0 <= x < w, 0 <= y < h, channel
\* in 0..2.
C12_CursorInGrid ==
  /\ 0 <= BitPos(ibw) /\ BitPos(ibw) < ibw.w * ibw.h * 3
  /\ ibw.currentX \in 0..(ibw.w - 1)
  /\ ibw.currentY \in 0..(ibw.h - 1)
  /\ ibw.currentRGB \in 0..2

\* C12, amended: after any sequence of Write and Seek calls the cursor is in
\* 0..w*h*3, and (x, y, channel) is got back from it by channel = cursor % 3,
\* x = (cursor / 3) % w, y = cursor / 3 / w; below w*h*3 the triple is in the
\* grid; the cursor equals w*h*3 exactly in the end state x = 0, y = h,
\* channel = 0, which a Write that fills the last pixel or a Seek to or past
\* the end leaves behind.
C12_CursorInGridOrAtEnd ==
  LET c == BitPos(ibw)
  IN /\ 0 <= c /\ c <= ibw.w * ibw.h * 3
     /\ ibw.currentRGB = c % 3
     /\ ibw.currentX = (c \div 3) % ibw.w
     /\ ibw.currentY = (c \div 3) \div ibw.w
     /\ ibw.currentX \in 0..(ibw.w - 1)
     /\ ibw.currentRGB \in 0..2
     /\ ibw.currentY \in 0..ibw.h
     /\ c < ibw.w * ibw.h * 3 <=> ibw.currentY < ibw.h
     /\ ibw.currentY = ibw.h => ibw.currentX = 0 /\ ibw.currentRGB = 0

C12_Witness ==
  /\ ops.writes = 1 /\ ops.seeks = 1
  /\ ret.op = "Seek" /\ ret.whence = SeekCurrent /\ ret.offset = 1
  /\ ret.was.currentY < ibw.h /\ ret.was.currentX > 0
  /\ ibw.currentY = ibw.h
  /\ BitPos(ibw) = ibw.w * ibw.h * 3

\* C13: in any state reached by Write and Seek calls, a Write of more bytes
\* than the remaining capacity (capacity minus the cursor's byte position
\* BitPos()/8) writes exactly the remaining capacity, returns that count and
\* signals the end of capacity (io.EOF).
C13_WriteTruncatesAtCursor ==
  ret.op = "Write" =>
    LET remaining == ret.was.capacity - BitPos(ret.was) \div 8
    IN Len(ret.data) > remaining => (ret.n = remaining /\ ret.err = "EOF")

-----------------------------------------------------------------------------
(* The end of decodeImage, checked under Spec *)

\* C14: on every supported grid, those of fewer than 36 bytes (no key) or
\* fewer than 256 bytes (key) included, decodeImage ends by emitting the
\* payload or by returning an error; it never ends in an out-of-range slice
\* of the buffer.
C14_DecodeEndsInValueOrError ==
  (pc = "dec_return" /\ SupportedModel(im0.model)) => res.dec # "panic"

=============================================================================
